---- MODULE Spec2Model ----
(***************************************************************************)
(* The "PyTorch training loop" cell of Quickstart.ipynb (source lines      *)
(* 136-175): a manual training loop over nEpoch epochs followed by an      *)
(* evaluation loop over the test loader.  One action per statement of the  *)
(* cell; pc is the position of the single Python thread in the cell.       *)
(*                                                                         *)
(* External collaborators (model, criterion, autograd, optimizer, loaders) *)
(* are modelled by the effect the cell relies on:                          *)
(*   - a DataLoader over n samples yields ceil(n / BATCH_SIZE) batches,    *)
(*     the last one possibly smaller (drop_last is not set);               *)
(*   - .grad accumulates: backward appends the batch's gradient to grad,   *)
(*     zero_grad empties it, step applies whatever grad holds;             *)
(*   - the model returns one row per sample (SimpleModel); a second        *)
(*     specification, MisfitSpec, runs the same loop with a model whose    *)
(*     output has another height for some batch size, the configuration    *)
(*     error on which the loss computation raises;                         *)
(*   - the value of a loss and the predicted class of each row are         *)
(*     drawn from small sets; losses are whole numbers and running_loss    *)
(*     is kept in fixed point with scale Scale, so that the update         *)
(*     0.99 * running_loss + 0.01 * loss is exact (rounding of floats is   *)
(*     not modelled);                                                      *)
(*   - the labels of both datasets are one fixed labelling (Label); the    *)
(*     name `labels` is bound by the training loop and rebound by the      *)
(*     evaluation loop; the value of the criterion is drawn.               *)
(*                                                                         *)
(* A second specification, TrialSpec, is the training cell of the VAE      *)
(* notebook (VAE.ipynb, source lines 257-263): a torchbearer Trial run     *)
(* with the callbacks replace_targets and visualiser.  Each notebook is    *)
(* its own program: under Spec the Trial's variables stay as NoTrial sets  *)
(* them, under TrialSpec the cell's variables stay as NoManualLoop does.   *)
(***************************************************************************)
EXTENDS Integers, Sequences, FiniteSets, TLC

\* ---------------------------------------------------------------- bounds
\* nEpoch is 2 in the notebook; the model runs it for every 0..MaxEpoch.
MaxEpoch == 2
\* sizes of the training and of the test set (50000 and 10000 in the notebook)
MaxTrainSamples == 5
MaxTestSamples == 3
\* BATCH_SIZE is 128 in the notebook (source line 52); scaled down
BATCH_SIZE == 2
\* loss.item() ranges over 0..MaxLoss
MaxLoss == 2
\* the classifier has 10 outputs in the notebook (source line 97); scaled down
NumClasses == 2

\* run(epochs=10) in the VAE notebook; the model runs every 0..MaxTrialEpochs
MaxTrialEpochs == 2
\* sizes of trainset and valset of the VAE notebook (54000 and 6000 there)
MaxTrialSamples == 3
\* training_steps = 10000 in the optimisation notebook; scaled down
MaxTrainingSteps == 6
\* pixels of one MNIST image: y_true.view(-1, 784)
PIXELS == 784

\* a Python name that has not been assigned yet
Unbound == 0 - 1

Classes == 0 .. (NumClasses - 1)
LossValues == 0 .. MaxLoss

VARIABLES
    pc,            \* position in the cell
    error,         \* the exception that ended the cell, or "none"
    nEpoch,        \* nEpoch
    trainSize,     \* len(dataset), the set behind traingen
    testSize,      \* len(testset), the set behind testgen
    epoch,         \* loop variable of the epoch loop
    trainloader,   \* iter(traingen): number of batches it has yielded
    enum,          \* enumerate(trainloader): the next index it hands out
    i,             \* loop variable: index of the current batch
    data,          \* the current batch: [idx |-> index in its loader, n |-> samples]
    outputs,       \* model(inputs): number of rows of the prediction
    loss,          \* loss.item() of the current batch
    running_loss,  \* running_loss, in fixed point (value * Scale)
    grad,          \* .grad of the parameters: the batch gradients accumulated
    params,        \* learnable parameters: the updates applied, in order
    adam_steps,    \* optimizer state: number of updates Adam has made
    bn_buffers,    \* BatchNorm running statistics: train-mode forwards seen
    testiter,      \* iterator of "for data in testgen"
    labels,        \* labels of the batch fetched last, training or test
    predicted,     \* arg-max class of each row of outputs
    correct,       \* correct
    total,         \* total
    accuracy,      \* 100 * correct / total as printed
    last_running,  \* history: running_loss after the last completed batch
    epoch_losses,  \* history: loss.item() of the completed batches of the epoch
    model_rows,    \* height of model(x) for a batch of n samples: n for SimpleModel
    log            \* calls made so far: [op, phase, epoch, batch]

cell_vars == <<pc, error, nEpoch, trainSize, testSize, epoch, trainloader,
               enum, i,
               data, outputs, loss, running_loss, grad, params, adam_steps,
               bn_buffers, testiter, labels, predicted, correct, total,
               accuracy, log,
               last_running,
               epoch_losses,
               model_rows>>

\* state of the Trial of the VAE notebook (VAE.ipynb, training cell)
VARIABLES
    trial_pc,         \* position in Trial.run
    trial_error,      \* the exception that ended run(), or "none"
    pass_state,       \* Trial(..., pass_state=...): forward is given state
    replace_targets,  \* body of the callback: "pass", or "images" (Y_TRUE = X)
    epochs,           \* run(epochs=...)
    traingenSize,     \* len(trainset), the set behind traingen
    valgenSize,       \* len(valset), the set behind valgen
    state_epoch,      \* state[EPOCH]
    state_batch,      \* index of the current batch in its pass
    batch_n,          \* samples of the current batch
    y_true,           \* what state[Y_TRUE] holds: "none", "labels", "images"
    trial_steps,      \* parameter updates the optimizer has applied
    once_epoch,       \* once_per_epoch: the epoch visualiser last ran in
    state_mu,         \* batch whose mean and log-variance state[MU], state[LOGVAR] hold
    state_loss,       \* terms summed in state[LOSS], the loss the optimizer minimises
    train_steps,      \* for_train_steps(training_steps); Unbound for a Trial with generators
    net_state,        \* whether Net.forward takes the state argument
    forward_stores,   \* whether VAE.forward writes state[MU] and state[LOGVAR]
    f_implemented,    \* whether Net.f() returns a tensor or is left as pass
    tlog              \* calls made so far: [op, phase, epoch, batch]

trial_vars == <<trial_pc, trial_error, pass_state, replace_targets, epochs,
                traingenSize, valgenSize, state_epoch, state_batch, batch_n,
                y_true, trial_steps, once_epoch, tlog,
                state_mu,
                state_loss,
                train_steps,
                net_state,
                forward_stores,
                f_implemented>>

vars == <<cell_vars, trial_vars>>

\* ------------------------------------------------------------- helpers

\* len(DataLoader(ds, batch_size=BATCH_SIZE)) for a set of n samples
NumBatches(n) == (n + BATCH_SIZE - 1) \div BATCH_SIZE

\* number of samples of batch k (from 0) of a loader over n samples
BatchLen(n, k) ==
    IF (k + 1) * BATCH_SIZE <= n THEN BATCH_SIZE ELSE n - k * BATCH_SIZE

RECURSIVE Pow(_, _)
Pow(b, e) == IF e = 0 THEN 1 ELSE b * Pow(b, e - 1)

\* running_loss is stored as value * Scale; Scale makes one epoch's updates exact
Scale == Pow(100, NumBatches(MaxTrainSamples))

Call(op, phase, e, b) == [op |-> op, phase |-> phase, epoch |-> e, batch |-> b]

\* a range that stops one value early
RangeHasNextShort(e, n) == e + 2 < n

\* a range that also yields its bound
RangeHasNextInclusive(e, n) == e + 1 <= n

\* range(nEpoch): is there a value after `e` (Unbound: none drawn yet)
RangeHasNext(e, n) == e + 1 < n

\* an iterator made once and carried over from epoch to epoch
FreshIterStale(old) == IF old = Unbound THEN 0 ELSE old

\* next(it) that passes over a batch each time it hands one out
AdvanceSkip(it) == it + 2

\* next(it) that hands out a batch without moving on
AdvanceStuck(it) == it

\* next(it): the iterator moves on by one batch
Advance(it) == it + 1

\* iter(traingen): a fresh iterator, whatever the previous one had reached
FreshIter(old) == 0

\* a running_loss that is halved, not cleared, when a later epoch starts
EpochStartRunningHalved(r) == IF r = Unbound THEN 0 ELSE r \div 2

\* a running_loss set to 0 once, before the first epoch only
EpochStartRunningOnce(r) == IF r = Unbound THEN 0 ELSE r

\* running_loss = 0.0 at the head of an epoch
EpochStartRunning(r) == 0

\* a zero_grad that leaves .grad as it is
ZeroedGradKept(g) == g

\* optimizer.zero_grad()
ZeroedGrad(g) == <<>>

\* a backward pass that leaves no gradient behind
AccumulateNothing(g, e, b) == g

\* loss.backward(): adds the gradient of batch <<e, b>> to .grad
Accumulate(g, e, b) == Append(g, <<e, b>>)

\* criterion(outputs, labels) raises when outputs has not one row per label
CriterionRaises(rows, n) == rows # n

\* the exception is caught and the loop goes on with the next batch
OnCriterionErrorSwallowed == "for_batch"

\* where control goes when the criterion raises: nothing catches it
OnCriterionError == "error"

\* a running total of the losses, with no decay
EMARunningTotal(r, l) == r + l * Scale

\* a moving average with weights 0.9 and 0.1
EMATenth(r, l) == (9 * r + l * Scale) \div 10

\* 0.99 * running_loss + 0.01 * loss.item()
EMA(r, l) == (99 * r + l * Scale) \div 100

\* dataset[s][1], testset[s][1]: the label of sample s.  The datasets are
\* fixed data; the cell only compares a label with the predicted class, and
\* the predicted class of every row ranges over all of Classes, so one
\* labelling that uses every class gives every pattern of right and wrong rows.
Label(s) == s % NumClasses

\* SimpleModel.forward: x.view(-1, 576) of the 576 features the convolutions
\* leave of a 32x32 image, then the classifier: one row per sample
SimpleModelRows == [n \in 1 .. BATCH_SIZE |-> n]

\* every batch of a test set of `size` samples gets one row per sample of m
EvalFits(m, size) ==
    \A b \in 0 .. (NumBatches(size) - 1) :
        m[BatchLen(size, b)] = BatchLen(size, b)

\* the labels of batch b of a loader over `size` samples (shuffle=False)
BatchLabels(size, b) ==
    [k \in 1 .. BatchLen(size, b) |-> Label(b * BATCH_SIZE + k - 1)]

\* counts the batch, not its samples
Size0One(l) == 1

\* labels.size(0)
Size0(l) == Len(l)

\* counts the rows of the prediction, right or wrong
CountEqualRows(p, l) == Len(p)

\* (predicted == labels).sum(): the rows whose arg-max class is the label
RECURSIVE CountEqual(_, _)
CountEqual(p, l) ==
    IF p = <<>> \/ l = <<>> THEN 0
    ELSE (IF Head(p) = Head(l) THEN 1 ELSE 0) + CountEqual(Tail(p), Tail(l))

\* 100 * correct / total as "%d" prints it
Percent(c, t) == (100 * c) \div t

\* ------------------------------------------------------------ initial

\* no Trial has been built: the notebook of the manual loop runs alone
NoTrial ==
    /\ trial_pc = "none"
    /\ trial_error = "none"
    /\ pass_state = FALSE
    /\ replace_targets = "pass"
    /\ epochs = 0
    /\ traingenSize = 0
    /\ valgenSize = 0
    /\ state_epoch = Unbound
    /\ state_batch = Unbound
    /\ batch_n = 0
    /\ y_true = "none"
    /\ trial_steps = 0
    /\ once_epoch = Unbound
    /\ tlog = <<>>
    /\ f_implemented = TRUE
    /\ forward_stores = TRUE
    /\ net_state = TRUE
    /\ train_steps = Unbound
    /\ state_loss = {}
    /\ state_mu = <<>>

CellStart ==
    /\ pc = "for_epoch"
    /\ error = "none"
    /\ nEpoch \in 0 .. MaxEpoch
    /\ trainSize \in 0 .. MaxTrainSamples
    /\ testSize \in 0 .. MaxTestSamples
    /\ epoch = Unbound
    /\ trainloader = Unbound
    /\ enum = Unbound
    /\ i = Unbound
    /\ data = [idx |-> Unbound, n |-> 0]
    /\ outputs = Unbound
    /\ loss = Unbound
    /\ running_loss = Unbound
    /\ grad = <<>>
    /\ params = <<>>
    /\ adam_steps = 0
    /\ bn_buffers = 0
    /\ testiter = Unbound
    /\ labels = <<>>
    /\ predicted = <<>>
    /\ correct = Unbound
    /\ total = Unbound
    /\ accuracy = Unbound
    /\ log = <<>>
    /\ epoch_losses = <<>>
    /\ last_running = Unbound
    /\ NoTrial

\* the cell of the notebook: the model is SimpleModel
Init ==
    /\ CellStart
    /\ model_rows = SimpleModelRows

\* the loop with a model that does not fit its data: the height of its
\* output is some function of the height of its input, the same in every
\* epoch.  Inputs on which the evaluation loop would meet such a batch are
\* left out: what happens there is not the failure of a loss computation.
MisfitInit ==
    /\ CellStart
    /\ model_rows \in [1 .. BATCH_SIZE -> 1 .. BATCH_SIZE]
    /\ EvalFits(model_rows, testSize)

\* ----------------------------------------------------- training loop

\* for epoch in range(nEpoch): the next epoch
ForEpoch ==
    /\ pc = "for_epoch"
    /\ RangeHasNext(epoch, nEpoch)
    /\ epoch' = epoch + 1
    /\ pc' = "iter_loader"
    /\ UNCHANGED <<error, nEpoch, trainSize, testSize, trainloader, enum, i,
                   data, outputs, loss, running_loss, grad, params, adam_steps,
                   bn_buffers, testiter, labels, predicted, correct, total,
                   accuracy, log, last_running, epoch_losses, model_rows>>
    /\ UNCHANGED trial_vars

\* for epoch in range(nEpoch): exhausted, on to the print after the loop
EpochsExhausted ==
    /\ pc = "for_epoch"
    /\ ~RangeHasNext(epoch, nEpoch)
    /\ pc' = "finished"
    /\ UNCHANGED <<error, nEpoch, trainSize, testSize, epoch, trainloader, enum,
                   i, data, outputs, loss, running_loss, grad, params,
                   adam_steps, bn_buffers, testiter, labels, predicted, correct,
                   total, accuracy, log, last_running, epoch_losses,
                   model_rows>>
    /\ UNCHANGED trial_vars

\* trainloader = iter(traingen)
IterLoader ==
    /\ pc = "iter_loader"
    /\ trainloader' = FreshIter(trainloader)
    /\ log' = Append(log, Call("iter", "train", epoch, 0))
    /\ pc' = "reset_running"
    /\ UNCHANGED <<error, nEpoch, trainSize, testSize, epoch, enum, i, data,
                   outputs, loss, running_loss, grad, params, adam_steps,
                   bn_buffers, testiter, labels, predicted, correct, total,
                   accuracy, last_running, epoch_losses, model_rows>>
    /\ UNCHANGED trial_vars

\* running_loss = 0.0
ResetRunning ==
    /\ pc = "reset_running"
    /\ running_loss' = EpochStartRunning(running_loss)
    /\ epoch_losses' = <<>>
    /\ pc' = "enumerate"
    /\ UNCHANGED <<error, nEpoch, trainSize, testSize, epoch, trainloader, enum,
                   i, data, outputs, loss, grad, params, adam_steps, bn_buffers,
                   testiter, labels, predicted, correct, total, accuracy, log,
                   last_running, model_rows>>
    /\ UNCHANGED trial_vars

\* enumerate(trainloader): a new enumeration, counting from 0
Enumerate ==
    /\ pc = "enumerate"
    /\ enum' = 0
    /\ pc' = "for_batch"
    /\ UNCHANGED <<error, nEpoch, trainSize, testSize, epoch, trainloader, i,
                   data, outputs, loss, running_loss, grad, params, adam_steps,
                   bn_buffers, testiter, labels, predicted, correct, total,
                   accuracy, log, last_running, epoch_losses, model_rows>>
    /\ UNCHANGED trial_vars

\* for i, data in enumerate(trainloader): the next batch;
\* inputs, labels = data; inputs, labels = inputs.cuda(), labels.cuda()
ForBatch ==
    /\ pc = "for_batch"
    /\ trainloader < NumBatches(trainSize)
    /\ data' = [idx |-> trainloader, n |-> BatchLen(trainSize, trainloader)]
    /\ labels' = BatchLabels(trainSize, trainloader)
    /\ trainloader' = Advance(trainloader)
    /\ i' = enum
    /\ enum' = enum + 1
    /\ pc' = "zero_grad"
    /\ UNCHANGED <<error, nEpoch, trainSize, testSize, epoch, outputs, loss,
                   running_loss, grad, params, adam_steps, bn_buffers, testiter,
                   predicted, correct, total, accuracy, log,
                   last_running, epoch_losses, model_rows>>
    /\ UNCHANGED trial_vars

\* for i, data in enumerate(trainloader): StopIteration, back to the epoch loop
BatchesExhausted ==
    /\ pc = "for_batch"
    /\ ~(trainloader < NumBatches(trainSize))
    /\ pc' = "for_epoch"
    /\ UNCHANGED <<error, nEpoch, trainSize, testSize, epoch, trainloader, enum,
                   i, data, outputs, loss, running_loss, grad, params,
                   adam_steps, bn_buffers, testiter, labels, predicted, correct,
                   total, accuracy, log, last_running, epoch_losses,
                   model_rows>>
    /\ UNCHANGED trial_vars

\* optimizer.zero_grad()
ZeroGrad ==
    /\ pc = "zero_grad"
    /\ grad' = ZeroedGrad(grad)
    /\ log' = Append(log, Call("zero_grad", "train", epoch, i))
    /\ pc' = "forward"
    /\ UNCHANGED <<error, nEpoch, trainSize, testSize, epoch, trainloader, enum,
                   i, data, outputs, loss, running_loss, params, adam_steps,
                   bn_buffers, testiter, labels, predicted, correct, total,
                   accuracy, last_running, epoch_losses, model_rows>>
    /\ UNCHANGED trial_vars

\* outputs = model(inputs): the model is in training mode, so the BatchNorm
\* layers update their running statistics; the height of the prediction is
\* what the model makes of a batch of data.n samples
Forward ==
    /\ pc = "forward"
    /\ outputs' = model_rows[data.n]
    /\ bn_buffers' = bn_buffers + 1
    /\ log' = Append(log, Call("forward", "train", epoch, i))
    /\ pc' = "criterion"
    /\ UNCHANGED <<error, nEpoch, trainSize, testSize, epoch, trainloader, enum,
                   i, data, loss, running_loss, grad, params, adam_steps,
                   testiter, labels, predicted, correct, total, accuracy,
                   last_running, epoch_losses, model_rows>>
    /\ UNCHANGED trial_vars

\* loss = criterion(outputs, labels)
Criterion ==
    /\ pc = "criterion"
    /\ ~CriterionRaises(outputs, data.n)
    /\ \E l \in LossValues : loss' = l
    /\ log' = Append(log, Call("loss", "train", epoch, i))
    /\ pc' = "backward"
    /\ UNCHANGED <<error, nEpoch, trainSize, testSize, epoch, trainloader, enum,
                   i, data, outputs, running_loss, grad, params, adam_steps,
                   bn_buffers, testiter, labels, predicted, correct, total,
                   accuracy, last_running, epoch_losses, model_rows>>
    /\ UNCHANGED trial_vars

\* a failing loss that undoes the parameter updates of its epoch
CriterionErrorRollback ==
    /\ pc = "criterion"
    /\ CriterionRaises(outputs, data.n)
    /\ log' = Append(log, Call("loss", "train", epoch, i))
    /\ pc' = OnCriterionError
    /\ params' = SubSeq(params, 1, Len(params) - i)
    /\ error' = IF pc' = "error" THEN "shape_mismatch" ELSE error
    /\ UNCHANGED <<nEpoch, trainSize, testSize, epoch, trainloader, enum, i,
                   data, outputs, loss, running_loss, grad, adam_steps,
                   bn_buffers, testiter, labels, predicted, correct, total,
                   accuracy, last_running, epoch_losses, model_rows>>
    /\ UNCHANGED trial_vars

\* loss = criterion(outputs, labels) raises: the exception leaves the cell
CriterionError ==
    /\ pc = "criterion"
    /\ CriterionRaises(outputs, data.n)
    /\ log' = Append(log, Call("loss", "train", epoch, i))
    /\ pc' = OnCriterionError
    /\ error' = IF pc' = "error" THEN "shape_mismatch" ELSE error
    /\ UNCHANGED <<nEpoch, trainSize, testSize, epoch, trainloader, enum, i,
                   data, outputs, loss, running_loss, grad, params, adam_steps,
                   bn_buffers, testiter, labels, predicted, correct, total,
                   accuracy, last_running, epoch_losses, model_rows>>
    /\ UNCHANGED trial_vars

\* loss.backward()
Backward ==
    /\ pc = "backward"
    /\ grad' = Accumulate(grad, epoch, i)
    /\ log' = Append(log, Call("backward", "train", epoch, i))
    /\ pc' = "step"
    /\ UNCHANGED <<error, nEpoch, trainSize, testSize, epoch, trainloader, enum,
                   i, data, outputs, loss, running_loss, params, adam_steps,
                   bn_buffers, testiter, labels, predicted, correct, total,
                   accuracy, last_running, epoch_losses, model_rows>>
    /\ UNCHANGED trial_vars

\* optimizer.step()
Step ==
    /\ pc = "step"
    /\ params' = Append(params, grad)
    /\ adam_steps' = adam_steps + 1
    /\ log' = Append(log, Call("step", "train", epoch, i))
    /\ pc' = "update_running"
    /\ UNCHANGED <<error, nEpoch, trainSize, testSize, epoch, trainloader, enum,
                   i, data, outputs, loss, running_loss, grad, bn_buffers,
                   testiter, labels, predicted, correct, total, accuracy,
                   last_running, epoch_losses, model_rows>>
    /\ UNCHANGED trial_vars

\* running_loss = 0.99 * running_loss + 0.01 * loss.item(); print(...)
UpdateRunning ==
    /\ pc = "update_running"
    /\ running_loss' = EMA(running_loss, loss)
    /\ last_running' = running_loss'
    /\ epoch_losses' = Append(epoch_losses, loss)
    /\ pc' = "for_batch"
    /\ UNCHANGED <<error, nEpoch, trainSize, testSize, epoch, trainloader, enum,
                   i, data, outputs, loss, grad, params, adam_steps, bn_buffers,
                   testiter, labels, predicted, correct, total, accuracy, log,
                   model_rows>>
    /\ UNCHANGED trial_vars

\* print('\n **** Finished Training **** \n')
Finished ==
    /\ pc = "finished"
    /\ pc' = "eval_init"
    /\ UNCHANGED <<error, nEpoch, trainSize, testSize, epoch, trainloader, enum,
                   i, data, outputs, loss, running_loss, grad, params,
                   adam_steps, bn_buffers, testiter, labels, predicted, correct,
                   total, accuracy, log, last_running, epoch_losses,
                   model_rows>>
    /\ UNCHANGED trial_vars

Train ==
    \/ ForEpoch \/ EpochsExhausted \/ IterLoader \/ ResetRunning \/ Enumerate
    \/ ForBatch \/ BatchesExhausted \/ ZeroGrad \/ Forward \/ Criterion
    \/ Backward \/ Step \/ UpdateRunning \/ Finished

\* --------------------------------------------------- evaluation loop

\* correct = 0; total = 0
EvalInit ==
    /\ pc = "eval_init"
    /\ correct' = 0
    /\ total' = 0
    /\ pc' = "iter_test"
    /\ UNCHANGED <<error, nEpoch, trainSize, testSize, epoch, trainloader, enum,
                   i, data, outputs, loss, running_loss, grad, params,
                   adam_steps, bn_buffers, testiter, labels, predicted,
                   accuracy, log, last_running, epoch_losses, model_rows>>
    /\ UNCHANGED trial_vars

\* for data in testgen: the for statement takes one iterator of the loader
IterTest ==
    /\ pc = "iter_test"
    /\ testiter' = 0
    /\ log' = Append(log, Call("iter", "eval", epoch, 0))
    /\ pc' = "for_test"
    /\ UNCHANGED <<error, nEpoch, trainSize, testSize, epoch, trainloader, enum,
                   i, data, outputs, loss, running_loss, grad, params,
                   adam_steps, bn_buffers, labels, predicted, correct, total,
                   accuracy, last_running, epoch_losses, model_rows>>
    /\ UNCHANGED trial_vars

\* for data in testgen: the next batch; images, labels = data;
\* labels = labels.cuda()
ForTest ==
    /\ pc = "for_test"
    /\ testiter < NumBatches(testSize)
    /\ data' = [idx |-> testiter, n |-> BatchLen(testSize, testiter)]
    /\ labels' = BatchLabels(testSize, testiter)
    /\ testiter' = Advance(testiter)
    /\ pc' = "eval_forward"
    /\ UNCHANGED <<error, nEpoch, trainSize, testSize, epoch, trainloader, enum,
                   i, outputs, loss, running_loss, grad, params, adam_steps,
                   bn_buffers, predicted, correct, total, accuracy, log,
                   last_running, epoch_losses, model_rows>>
    /\ UNCHANGED trial_vars

\* for data in testgen: StopIteration, on to the print after the loop
TestExhausted ==
    /\ pc = "for_test"
    /\ ~(testiter < NumBatches(testSize))
    /\ pc' = "report"
    /\ UNCHANGED <<error, nEpoch, trainSize, testSize, epoch, trainloader, enum,
                   i, data, outputs, loss, running_loss, grad, params,
                   adam_steps, bn_buffers, testiter, labels, predicted, correct,
                   total, accuracy, log, last_running, epoch_losses,
                   model_rows>>
    /\ UNCHANGED trial_vars

\* outputs = model(images.cuda()): model.eval() was never called, so this is
\* a train-mode forward too, of the same model
EvalForward ==
    /\ pc = "eval_forward"
    /\ outputs' = model_rows[data.n]
    /\ bn_buffers' = bn_buffers + 1
    /\ log' = Append(log, Call("forward", "eval", epoch, data.idx))
    /\ pc' = "eval_max"
    /\ UNCHANGED <<error, nEpoch, trainSize, testSize, epoch, trainloader, enum,
                   i, data, loss, running_loss, grad, params, adam_steps,
                   testiter, labels, predicted, correct, total, accuracy,
                   last_running, epoch_losses, model_rows>>
    /\ UNCHANGED trial_vars

\* _, predicted = torch.max(outputs.data, 1): one class index per row
EvalMax ==
    /\ pc = "eval_max"
    /\ \E p \in [1 .. outputs -> Classes] : predicted' = p
    /\ pc' = "eval_total"
    /\ UNCHANGED <<error, nEpoch, trainSize, testSize, epoch, trainloader, enum,
                   i, data, outputs, loss, running_loss, grad, params,
                   adam_steps, bn_buffers, testiter, labels, correct, total,
                   accuracy, log, last_running, epoch_losses, model_rows>>
    /\ UNCHANGED trial_vars

\* total += labels.size(0)
EvalTotal ==
    /\ pc = "eval_total"
    /\ total' = total + Size0(labels)
    /\ pc' = "eval_correct"
    /\ UNCHANGED <<error, nEpoch, trainSize, testSize, epoch, trainloader, enum,
                   i, data, outputs, loss, running_loss, grad, params,
                   adam_steps, bn_buffers, testiter, labels, predicted, correct,
                   accuracy, log, last_running, epoch_losses, model_rows>>
    /\ UNCHANGED trial_vars

\* an evaluation body that also makes an optimizer step
EvalCorrectStepping ==
    /\ pc = "eval_correct"
    /\ correct' = correct + CountEqual(predicted, labels)
    /\ params' = Append(params, grad)
    /\ adam_steps' = adam_steps + 1
    /\ log' = Append(log, Call("step", "eval", epoch, data.idx))
    /\ pc' = "for_test"
    /\ UNCHANGED <<error, nEpoch, trainSize, testSize, epoch, trainloader, enum,
                   i, data, outputs, loss, running_loss, grad, bn_buffers,
                   testiter, labels, predicted, total, accuracy, last_running,
                   epoch_losses, model_rows>>
    /\ UNCHANGED trial_vars

\* correct += (predicted == labels).sum()
EvalCorrect ==
    /\ pc = "eval_correct"
    /\ correct' = correct + CountEqual(predicted, labels)
    /\ pc' = "for_test"
    /\ UNCHANGED <<error, nEpoch, trainSize, testSize, epoch, trainloader, enum,
                   i, data, outputs, loss, running_loss, grad, params,
                   adam_steps, bn_buffers, testiter, labels, predicted, total,
                   accuracy, log, last_running, epoch_losses, model_rows>>
    /\ UNCHANGED trial_vars

\* print('Accuracy ...: %d %%' % (100*correct / total))
Report ==
    /\ pc = "report"
    /\ total # 0
    /\ accuracy' = Percent(correct, total)
    /\ pc' = "done"
    /\ UNCHANGED <<error, nEpoch, trainSize, testSize, epoch, trainloader, enum,
                   i, data, outputs, loss, running_loss, grad, params,
                   adam_steps, bn_buffers, testiter, labels, predicted, correct,
                   total, log, last_running, epoch_losses, model_rows>>
    /\ UNCHANGED trial_vars

\* a division by zero that yields 0 and lets the cell print
ReportErrorSwallowed ==
    /\ pc = "report"
    /\ total = 0
    /\ accuracy' = 0
    /\ pc' = "done"
    /\ UNCHANGED <<error, nEpoch, trainSize, testSize, epoch, trainloader, enum,
                   i, data, outputs, loss, running_loss, grad, params,
                   adam_steps, bn_buffers, testiter, labels, predicted, correct,
                   total, log, last_running, epoch_losses, model_rows>>
    /\ UNCHANGED trial_vars

\* 100*correct / total with total = 0 (both still Python ints): ZeroDivisionError
ReportError ==
    /\ pc = "report"
    /\ total = 0
    /\ error' = "zero_division"
    /\ pc' = "error"
    /\ UNCHANGED <<nEpoch, trainSize, testSize, epoch, trainloader, enum, i,
                   data, outputs, loss, running_loss, grad, params, adam_steps,
                   bn_buffers, testiter, labels, predicted, correct, total,
                   accuracy, log, last_running, epoch_losses, model_rows>>
    /\ UNCHANGED trial_vars

Evaluate ==
    \/ EvalInit \/ IterTest \/ ForTest \/ TestExhausted \/ EvalForward
    \/ EvalMax \/ EvalTotal \/ EvalCorrect \/ Report \/ ReportError

Next == Train \/ Evaluate

Spec == Init /\ [][Next]_vars

\* the cell runs to its end: the interpreter executes the next statement
FairSpec == Spec /\ WF_vars(Next)

\* the loop with a model that may not fit: the loss computation can raise
MisfitNext == Train \/ CriterionError \/ Evaluate

MisfitSpec == MisfitInit /\ [][MisfitNext]_vars

\* ---------------------------------------------------------- the log

TrainPcs == {"for_epoch", "iter_loader", "reset_running", "enumerate",
             "for_batch", "zero_grad", "forward", "criterion", "backward",
             "step", "update_running"}
EvalPcs == {"eval_init", "iter_test", "for_test", "eval_forward", "eval_max",
            "eval_total", "eval_correct", "report"}

\* the training loop has been left by its normal exit
TrainingFinished == pc \notin TrainPcs /\ error # "shape_mismatch"

\* the optimizer and autograd calls the log holds for training batch <<e, b>>
IsBatchCall(r, e, b) ==
    r.phase = "train" /\ r.op # "iter" /\ r.epoch = e /\ r.batch = b
OpsOf(e, b) ==
    LET sel == SelectSeq(log, LAMBDA r : IsBatchCall(r, e, b))
    IN  [k \in 1 .. Len(sel) |-> sel[k].op]

\* the calls of the log with operation op in phase ph
CallsOf(op, ph) == SelectSeq(log, LAMBDA r : r.op = op /\ r.phase = ph)

IsPrefix(s, t) == Len(s) <= Len(t) /\ \A k \in 1 .. Len(s) : s[k] = t[k]

BatchOrder == <<"zero_grad", "forward", "loss", "backward", "step">>

EpochIds == 0 .. (MaxEpoch - 1)
BatchIds == 0 .. (NumBatches(MaxTrainSamples) - 1)

\* ------------------------------------------------------------ claims

\* C1: every training batch goes through zero_grad, forward, loss, backward,
\* step in this order (step never before the batch's backward, zero_grad
\* before it), every batch left behind went through all five, and the
\* gradient each optimizer step applied is that of its own batch alone.
C1_StepOrder ==
    /\ \A e \in EpochIds, b \in BatchIds :
          LET ops == OpsOf(e, b)
          IN  /\ IsPrefix(ops, BatchOrder)
              /\ (ops # <<>> /\ <<e, b>> # <<epoch, i>>) => ops = BatchOrder
    /\ pc \in {"update_running", "for_batch"} /\ i # Unbound /\ epoch # Unbound
          /\ OpsOf(epoch, i) # <<>>
          => OpsOf(epoch, i) = BatchOrder
    /\ LET steps == CallsOf("step", "train")
       IN  /\ Len(params) = Len(steps)
           /\ \A k \in 1 .. Len(params) :
                 params[k] = << <<steps[k].epoch, steps[k].batch>> >>

\* C1 witness: the step of a second batch has run
C1_Witness == pc = "update_running" /\ Len(params) >= 2

\* C2: when training finishes, every epoch took a fresh iterator of the
\* loader and every batch of every epoch was processed exactly once, so
\* exactly nEpoch * B optimizer steps have been applied.
C2_StepsPerRun ==
    TrainingFinished =>
        /\ Len(params) = nEpoch * NumBatches(trainSize)
        /\ adam_steps = nEpoch * NumBatches(trainSize)
        /\ Len(CallsOf("iter", "train")) = nEpoch
        /\ \A e \in EpochIds, b \in BatchIds :
              IF e < nEpoch /\ b < NumBatches(trainSize)
              THEN OpsOf(e, b) = BatchOrder
              ELSE OpsOf(e, b) = <<>>

\* C2 witness: two epochs of two batches each have been trained
C2_Witness ==
    /\ TrainingFinished
    /\ nEpoch = 2
    /\ NumBatches(trainSize) = 2
    /\ Len(params) = 4

\* C3: with nEpoch = 0 the training loop makes no forward, backward or
\* optimizer step and the parameters stay as they were.
C3_ZeroEpochs ==
    nEpoch = 0 =>
        /\ params = <<>>
        /\ adam_steps = 0
        /\ grad = <<>>
        /\ \A k \in 1 .. Len(log) : log[k].phase # "train"

\* C3 witness: the loop was run for 0 epochs over a non-empty training set
C3_Witness == nEpoch = 0 /\ trainSize > 0 /\ pc = "finished"

\* the step taken from a loss computation whose shapes do not match
C4_RaisedAtOnce ==
    [][(pc = "criterion" /\ CriterionRaises(outputs, data.n))
          => /\ pc' = "error"
             /\ error' = "shape_mismatch"
             /\ params' = params
             /\ grad' = grad]_vars
\* the state a failed loss computation leaves behind
C4_Aborted ==
    error = "shape_mismatch" =>
        /\ pc = "error"
        /\ OpsOf(epoch, i) = <<"zero_grad", "forward", "loss">>
        /\ log[Len(log)] = Call("loss", "train", epoch, i)
        /\ \A k \in 1 .. Len(log) : log[k].phase = "train"
        /\ Len(params) = Len(CallsOf("loss", "train")) - 1
        /\ correct = Unbound /\ total = Unbound
        /\ ~ENABLED MisfitNext
\* C4: a loss computation that fails on mismatching shapes is raised at
\* once: the parameters and gradients are left alone, the failing batch has
\* had its zero_grad, forward and one loss call (no retry, no backward, no
\* step), it is the last thing the run did (no later batch or epoch, no
\* evaluation), and the run has halted in the error state, not in "done".
C4_LossFailure == []C4_Aborted /\ C4_RaisedAtOnce

\* C4 witness: the loss of a batch after the first one has failed
C4_Witness == error = "shape_mismatch" /\ pc = "error" /\ Len(params) >= 1

\* C5: a step changes running_loss only if it is the reset at the head of
\* an epoch or the update after a batch's optimizer step; that update runs
\* once after every optimizer step and nowhere else, and it sets
\* running_loss to 0.99 * running_loss + 0.01 * loss.
C5_RunningUpdate ==
    [][/\ (running_loss' # running_loss)
              => pc \in {"reset_running", "update_running"}
       /\ (pc = "update_running")
              => /\ 100 * running_loss' = 99 * running_loss + loss * Scale
                 /\ pc' = "for_batch"
       /\ (pc = "step") <=> (pc' = "update_running")]_vars

\* C5 witness: running_loss after two batches with losses 2 and 1
C5_Witness ==
    /\ pc = "for_batch"
    /\ enum = 2
    /\ loss = 1
    /\ 100 * 100 * running_loss = (99 * 2 + 100 * 1) * Scale

\* running_loss before the first batch of an epoch
C6_ZeroAtEpochStart ==
    (pc = "enumerate" \/ (pc = "for_batch" /\ enum = 0)) => running_loss = 0
\* what a step other than the reset may do to running_loss
C6_NoResetMidEpoch ==
    [][pc # "reset_running"
          => /\ (running_loss > 0 => running_loss' > 0)
             /\ (pc # "update_running" => running_loss' = running_loss)]_vars
\* C6: running_loss is 0 when the first batch of an epoch is about to be
\* fetched, in every epoch; and no step other than the reset at the head of
\* an epoch takes a positive running_loss to 0 or changes it apart from the
\* per-batch update.
C6_ResetPerEpoch == []C6_ZeroAtEpochStart /\ C6_NoResetMidEpoch

\* C6 witness: the second epoch starts at 0 after an epoch that ended above 0
C6_Witness ==
    /\ epoch = 1
    /\ pc = "for_batch"
    /\ enum = 0
    /\ loss > 0
    /\ running_loss = 0

\* C7: once the evaluation counters are set, 0 <= correct <= total, and
\* with total > 0 the accuracy correct / total is in [0, 1] (the printed
\* percentage in 0..100).
C7_AccuracyRange ==
    correct # Unbound =>
        /\ 0 <= correct
        /\ correct <= total
        /\ (total > 0 => 0 <= Percent(correct, total)
                         /\ Percent(correct, total) <= 100)
        /\ (accuracy # Unbound => 0 <= accuracy /\ accuracy <= 100)

\* C7 witness: a batch of several samples, all predicted right, was counted
C7_Witness ==
    /\ pc = "for_test"
    /\ total >= 2
    /\ correct = total
    /\ Size0(labels) >= 2

\* what a step taken inside the evaluation loop may change
C8_EvalStep ==
    pc \in EvalPcs =>
        /\ params' = params
        /\ grad' = grad
        /\ adam_steps' = adam_steps
        /\ log' # log =>
              /\ log' = Append(log, log'[Len(log')])
              /\ log'[Len(log')].op \in {"iter", "forward"}
              /\ log'[Len(log')].phase = "eval"
\* C8: evaluation only runs inference: no step taken while the cell is in
\* the evaluation loop changes the parameters, the gradients or the
\* optimizer state, and the only calls it logs are forward passes (and the
\* taking of the test iterator): never backward, never optimizer.step.
C8_EvalInferenceOnly == [][C8_EvalStep]_vars

\* C8 witness: a trained model has been evaluated on two test batches
C8_Witness ==
    /\ pc = "done"
    /\ Len(params) >= 1
    /\ Len(CallsOf("forward", "eval")) = 2

\* control is in the evaluation loop or past it
EvalBegun == pc \in EvalPcs \ {"eval_init"} \/ pc = "done"
                \/ error = "zero_division"

\* C9: once evaluation has begun, all nEpoch * B optimizer steps of training
\* are done and none follows (every training call of the log precedes every
\* evaluation call); the test loader is iterated once: one iterator, each
\* of its batches evaluated at most once, and all of them when the
\* evaluation loop is over.
C9_EvalAfterTraining ==
    /\ EvalBegun =>
          /\ Len(CallsOf("step", "train")) = nEpoch * NumBatches(trainSize)
          /\ Len(params) = nEpoch * NumBatches(trainSize)
    /\ \A k \in 1 .. (Len(log) - 1) :
          log[k].phase = "eval" => log[k + 1].phase = "eval"
    /\ Len(CallsOf("iter", "eval")) <= 1
    /\ LET fwd == CallsOf("forward", "eval")
       IN  \A j, k \in 1 .. Len(fwd) : j # k => fwd[j].batch # fwd[k].batch
    /\ (pc \in {"report", "done"} \/ error = "zero_division")
          => /\ Len(CallsOf("iter", "eval")) = 1
             /\ Len(CallsOf("forward", "eval")) = NumBatches(testSize)

\* C9 witness: evaluation of two test batches is over, after two epochs
C9_Witness ==
    /\ pc = "report"
    /\ nEpoch = 2
    /\ Len(params) >= 2
    /\ NumBatches(testSize) = 2

\* control has left the evaluation loop by its normal exit
EvalLoopOver == pc \in {"report", "done"} \/ error = "zero_division"

\* training reaches the end of its loop and the evaluation loop the end of
\* its own
C10_AlwaysBothTerminal == <>TrainingFinished /\ <>EvalLoopOver

\* the cell has ended
Halted == pc \in {"done", "error"}

\* no loop runs for more batches than its loader holds; a run that has
\* ended has trained for nEpoch epochs and exhausted the test loader once
C10_WorkBounded ==
    /\ Len(CallsOf("forward", "train")) <= nEpoch * NumBatches(trainSize)
    /\ Len(CallsOf("iter", "train")) <= nEpoch
    /\ Len(CallsOf("forward", "eval")) <= NumBatches(testSize)
    /\ Halted
          => /\ TrainingFinished
             /\ EvalLoopOver
             /\ Len(CallsOf("iter", "train")) = nEpoch
             /\ Len(CallsOf("step", "train")) = nEpoch * NumBatches(trainSize)
             /\ Len(CallsOf("forward", "eval")) = NumBatches(testSize)
             /\ testiter = NumBatches(testSize)

\* C10: with a finite loader, the training loop always reaches its terminal
\* state after the configured number of epochs and the evaluation loop
\* always reaches its terminal state after exhausting the held-out set once;
\* neither loop can run forever: the cell halts, and no loop runs for more
\* batches than its loader holds.
C10_Terminates == C10_AlwaysBothTerminal /\ <>Halted /\ []C10_WorkBounded

\* C10 witness: a run of two epochs has halted with both loops over
C10_Witness ==
    /\ pc = "done"
    /\ nEpoch = 2
    /\ NumBatches(trainSize) = 2
    /\ NumBatches(testSize) = 2

\* ------------------------------------------------- frame of one batch

\* the statements of the body of "for i, data in enumerate(trainloader)"
BatchBodyPcs ==
    {"zero_grad", "forward", "criterion", "backward", "step", "update_running"}

\* one statement of a batch's body changes, of the state that outlives the
\* batch, nothing but the parameters
C11_StepOnlyParams ==
    pc \in BatchBodyPcs
        => UNCHANGED <<adam_steps, bn_buffers, grad, running_loss>>

\* C11 as stated: processing one training batch mutates the model parameters
\* and touches no other shared state.
C11_OnlyParamsTouched == [][C11_StepOnlyParams]_vars

\* what fetching a batch changes: the loader's position and the loop's own
\* names i, data and labels
C11_FetchStep ==
    pc = "for_batch" =>
        /\ UNCHANGED <<nEpoch, trainSize, testSize, epoch, testiter, predicted,
                       correct, total, accuracy, params, grad, adam_steps,
                       bn_buffers, running_loss>>
        /\ pc' = "zero_grad" =>
              /\ i' = enum
              /\ data'.idx = trainloader
              /\ labels' = BatchLabels(trainSize, trainloader)
              /\ Len(labels') = data'.n

\* what one statement of a batch's body may change
C11_BodyStep ==
    pc \in BatchBodyPcs =>
        /\ UNCHANGED <<nEpoch, trainSize, testSize, epoch, trainloader, enum,
                       i, data, testiter, labels, predicted, correct, total,
                       accuracy>>
        /\ pc = "step" <=> params' # params
        /\ pc = "step" =>
              /\ params' = Append(params, <<<<epoch, i>>>>)
              /\ adam_steps' = adam_steps + 1
        /\ adam_steps' # adam_steps => pc = "step"
        /\ pc = "forward" <=> bn_buffers' # bn_buffers
        /\ grad' # grad => pc \in {"zero_grad", "backward"}
        /\ running_loss' # running_loss => pc = "update_running"

\* C11 amended: processing one training batch mutates the model parameters,
\* by one update made of that batch's gradient alone, and with them the
\* gradients (zero_grad, backward), the state of the Adam optimizer (step),
\* the running statistics of the BatchNorm layers (the train-mode forward)
\* and running_loss; fetching the batch advances the training loader and
\* binds the loop's names i, data and labels.  It touches nothing else: not
\* the test loader, the epoch, nEpoch, or the evaluation's predicted,
\* correct, total and accuracy.
C11_BatchFrame == [][C11_FetchStep /\ C11_BodyStep]_vars

\* C11 witness: the first batch has been processed; the parameters, the
\* optimizer state, the BatchNorm statistics and running_loss have changed
C11_Witness ==
    /\ pc = "for_batch"
    /\ epoch = 0
    /\ enum = 1
    /\ Len(params) = 1
    /\ adam_steps = 1
    /\ bn_buffers = 1
    /\ running_loss > 0
    /\ labels = BatchLabels(trainSize, 0)
    /\ Len(labels) = BATCH_SIZE

\* --------------------------------------------------- one batch at a time

\* position of an operation in the body of a batch (0 when it is none)
OrderIndex(op) ==
    IF \E k \in 1 .. Len(BatchOrder) : BatchOrder[k] = op
    THEN CHOOSE k \in 1 .. Len(BatchOrder) : BatchOrder[k] = op
    ELSE 0

\* call c comes directly after call p in a strictly sequential run
FollowsInOrder(p, c) ==
    IF c.op = "iter" THEN p.op \in {"step", "iter"}
    ELSE IF c.op = "zero_grad"
    THEN \/ p.op = "iter" /\ p.epoch = c.epoch /\ c.batch = 0
         \/ p.op = "step" /\ p.epoch = c.epoch /\ c.batch = p.batch + 1
    ELSE /\ p.epoch = c.epoch
         /\ p.batch = c.batch
         /\ OrderIndex(c.op) = OrderIndex(p.op) + 1

\* C12: batches are processed strictly one at a time in the loader's
\* iteration order.  The batch in the body is the one the loader yielded
\* last and its i-th of the epoch; the calls of one batch are contiguous in
\* the log, a batch begins only directly after the step of the batch before
\* it (or after the epoch's iter), so the step of batch b is in the log
\* before the forward of batch b + 1 and no two batches are in flight.
C12_OneAtATime ==
    /\ pc \in BatchBodyPcs =>
          /\ data.idx = i
          /\ i + 1 = enum
          /\ trainloader = enum
    /\ \A k \in 1 .. (Len(log) - 1) :
          log[k + 1].phase = "train" =>
              /\ log[k].phase = "train"
              /\ FollowsInOrder(log[k], log[k + 1])
    /\ \A k \in 1 .. Len(log) :
          (log[k].phase = "train" /\ log[k].op = "forward" /\ log[k].batch > 0)
              => \E j \in 1 .. (k - 1) :
                    /\ log[j].op = "step"
                    /\ log[j].epoch = log[k].epoch
                    /\ log[j].batch + 1 = log[k].batch

\* C12 witness: the third batch of the second epoch is about to be forwarded
C12_Witness ==
    /\ pc = "forward"
    /\ epoch = 1
    /\ i = 2
    /\ Len(params) = 5

\* ======================================================= the VAE Trial
\* Trial(model, optimizer, loss, callbacks=[replace_targets, visualiser])
\* .with_generators(traingen, valgen).run(epochs) of the VAE notebook.
\* Trial itself is library code; its steps are taken from the traceback the
\* notebook records (run -> _fit_pass -> optimizer.step(closure) -> closure:
\* forward, then the criterion; Adam updates the parameters after the
\* closure returns), from the progress lines (a training pass, then a
\* validation pass, in every epoch) and from what the notebook says of the
\* callback decorators it uses.

TCall(op, phase, e, b) == [op |-> op, phase |-> phase, epoch |-> e, batch |-> b]

\* a forward whose state argument has a default
ForwardRaisesNever(ps) == FALSE

\* VAE.forward(self, x, state): called as model(x) it lacks its argument
ForwardRaises(ps) == ~ps

\* the call the closure makes: model(x, state=state) or model(x)
ForwardCall(ps) == IF ps THEN "forward_state" ELSE "forward"

\* loss = bce_loss, the criterion handed to Trial: the terms it sums
TrialCriterion == {"bce_loss"}

\* the loss the VAE Loss cell describes: BCE on (y_pred, y_true) plus KLD on
\* the mean and log-variance
VaeLoss == {"bce_loss", "kld_Loss"}

\* a forward that keeps mu and logvar to itself whatever its body
StoredByForwardNothing(stores, old, id) == old

\* VAE.forward on the batch `id`: the body of VAE.ipynb ends with
\* state[MU], state[LOGVAR] = mu, logvar; the body of the variant with
\* pass_state=True ("Perhaps add something here?") writes nothing to state
StoredByForward(stores, old, id) == IF stores THEN id ELSE old

\* replace_targets(state) at a sample step: what Y_TRUE holds afterwards
OnSample(body) == IF body = "images" THEN "images" ELSE "labels"

\* number of elements of y_true for a batch of n samples
Numel(n, yt) == IF yt = "images" THEN n * PIXELS ELSE n

\* y_true.view(-1, 784) raises unless the elements fill whole rows
ViewRaises(numel) == numel % PIXELS # 0

\* a loss that takes any target
BceRaisesNever(n, yt) == FALSE

\* bce_loss(y_pred, y_true) raises: the view fails, or the target has not
\* the n rows of y_pred
BceRaises(n, yt) ==
    \/ ViewRaises(Numel(n, yt))
    \/ Numel(n, yt) \div PIXELS # n

\* a guard that lets every call through
OncePerEpochAlways(last, e) == TRUE

\* once_per_epoch: the callback runs on its first call of an epoch only
OncePerEpoch(last, e) == last # e

\* the manual loop's cell is not run in the VAE notebook
NoManualLoop ==
    /\ pc = "none"
    /\ error = "none"
    /\ nEpoch = 0
    /\ trainSize = 0
    /\ testSize = 0
    /\ epoch = Unbound
    /\ trainloader = Unbound
    /\ enum = Unbound
    /\ i = Unbound
    /\ data = [idx |-> Unbound, n |-> 0]
    /\ outputs = Unbound
    /\ loss = Unbound
    /\ running_loss = Unbound
    /\ grad = <<>>
    /\ params = <<>>
    /\ adam_steps = 0
    /\ bn_buffers = 0
    /\ testiter = Unbound
    /\ labels = <<>>
    /\ predicted = <<>>
    /\ correct = Unbound
    /\ total = Unbound
    /\ accuracy = Unbound
    /\ log = <<>>
    /\ model_rows = SimpleModelRows
    /\ epoch_losses = <<>>
    /\ last_running = Unbound

\* the Trial as built by the training cell, before run()
TrialInit ==
    /\ NoManualLoop
    /\ trial_pc = "run"
    /\ trial_error = "none"
    /\ pass_state \in BOOLEAN
    /\ replace_targets \in {"pass", "images"}
    /\ epochs \in 0 .. MaxTrialEpochs
    /\ traingenSize \in 0 .. MaxTrialSamples
    /\ valgenSize \in 0 .. MaxTrialSamples
    /\ state_epoch = Unbound
    /\ state_batch = Unbound
    /\ batch_n = 0
    /\ y_true = "none"
    /\ trial_steps = 0
    /\ once_epoch = Unbound
    /\ tlog = <<>>
    /\ f_implemented = TRUE
    /\ forward_stores \in BOOLEAN
    /\ net_state = TRUE
    /\ train_steps = Unbound
    /\ state_loss = {}
    /\ state_mu = <<>>

\* ---------------------------------------------------- Trial.run: epochs

\* run: the next epoch starts (on_start_epoch) and its training pass begins
StartEpoch ==
    /\ trial_pc = "run"
    /\ state_epoch + 1 < epochs
    /\ state_epoch' = state_epoch + 1
    /\ state_batch' = 0
    /\ trial_pc' = "fit_sample"
    /\ UNCHANGED <<trial_error, pass_state, replace_targets, epochs,
                   traingenSize, valgenSize, batch_n, y_true, trial_steps,
                   once_epoch, tlog, state_mu, state_loss, train_steps,
                   net_state, forward_stores, f_implemented>>
    /\ UNCHANGED cell_vars

\* run: all epochs are done, run() returns
RunReturns ==
    /\ trial_pc = "run"
    /\ ~(state_epoch + 1 < epochs)
    /\ trial_pc' = "returned"
    /\ UNCHANGED <<trial_error, pass_state, replace_targets, epochs,
                   traingenSize, valgenSize, state_epoch, state_batch, batch_n,
                   y_true, trial_steps, once_epoch, tlog, state_mu, state_loss,
                   train_steps, net_state, forward_stores, f_implemented>>
    /\ UNCHANGED cell_vars

\* ------------------------------------------- _fit_pass: the training pass

\* the next batch of traingen is loaded; on_sample runs replace_targets
FitSample ==
    /\ trial_pc = "fit_sample"
    /\ state_batch < NumBatches(traingenSize)
    /\ batch_n' = BatchLen(traingenSize, state_batch)
    /\ y_true' = OnSample(replace_targets)
    /\ tlog' = Append(tlog, TCall("sample", "t", state_epoch, state_batch))
    /\ trial_pc' = "fit_forward"
    /\ UNCHANGED <<trial_error, pass_state, replace_targets, epochs,
                   traingenSize, valgenSize, state_epoch, state_batch,
                   trial_steps, once_epoch, state_mu, state_loss, train_steps,
                   net_state, forward_stores, f_implemented>>
    /\ UNCHANGED cell_vars

\* a training pass that is followed by no validation pass
FitPassOverToNextEpoch ==
    /\ trial_pc = "fit_sample"
    /\ ~(state_batch < NumBatches(traingenSize))
    /\ trial_pc' = "run"
    /\ UNCHANGED <<trial_error, pass_state, replace_targets, epochs,
                   traingenSize, valgenSize, state_epoch, state_batch, batch_n,
                   y_true, trial_steps, once_epoch, tlog, state_mu, state_loss,
                   train_steps, net_state, forward_stores, f_implemented>>
    /\ UNCHANGED cell_vars

\* traingen is exhausted: the validation pass of the epoch begins
FitPassOver ==
    /\ trial_pc = "fit_sample"
    /\ ~(state_batch < NumBatches(traingenSize))
    /\ state_batch' = 0
    /\ trial_pc' = "val_sample"
    /\ UNCHANGED <<trial_error, pass_state, replace_targets, epochs,
                   traingenSize, valgenSize, state_epoch, batch_n, y_true,
                   trial_steps, once_epoch, tlog, state_mu, state_loss,
                   train_steps, net_state, forward_stores, f_implemented>>
    /\ UNCHANGED cell_vars

\* optimizer.step(closure) calls closure(): the forward pass
FitForward ==
    /\ trial_pc = "fit_forward"
    /\ ~ForwardRaises(pass_state)
    /\ state_mu' = StoredByForward(forward_stores, state_mu,
                                   <<"t", state_epoch, state_batch>>)
    /\ tlog' = Append(tlog, TCall(ForwardCall(pass_state), "t", state_epoch,
                                   state_batch))
    /\ trial_pc' = "fit_loss"
    /\ UNCHANGED <<trial_error, pass_state, replace_targets, epochs,
                   traingenSize, valgenSize, state_epoch, state_batch, batch_n,
                   y_true, trial_steps, once_epoch, state_loss, train_steps,
                   net_state, forward_stores, f_implemented>>
    /\ UNCHANGED cell_vars

\* the forward pass raises TypeError: it leaves closure, step and run
FitForwardError ==
    /\ trial_pc = "fit_forward"
    /\ ForwardRaises(pass_state)
    /\ tlog' = Append(tlog, TCall(ForwardCall(pass_state), "t", state_epoch,
                                   state_batch))
    /\ trial_error' = "TypeError"
    /\ trial_pc' = "failed"
    /\ UNCHANGED <<pass_state, replace_targets, epochs, traingenSize,
                   valgenSize, state_epoch, state_batch, batch_n, y_true,
                   trial_steps, once_epoch, state_mu, state_loss, train_steps,
                   net_state, forward_stores, f_implemented>>
    /\ UNCHANGED cell_vars

\* closure: state[LOSS] = criterion(y_pred, y_true)
FitLoss ==
    /\ trial_pc = "fit_loss"
    /\ ~BceRaises(batch_n, y_true)
    /\ state_loss' = TrialCriterion
    /\ tlog' = Append(tlog, TCall("loss", "t", state_epoch, state_batch))
    /\ trial_pc' = "fit_backward"
    /\ UNCHANGED <<trial_error, pass_state, replace_targets, epochs,
                   traingenSize, valgenSize, state_epoch, state_batch, batch_n,
                   y_true, trial_steps, once_epoch, state_mu, train_steps,
                   net_state, forward_stores, f_implemented>>
    /\ UNCHANGED cell_vars

\* the criterion raises RuntimeError: it leaves closure, step and run
FitLossError ==
    /\ trial_pc = "fit_loss"
    /\ BceRaises(batch_n, y_true)
    /\ tlog' = Append(tlog, TCall("loss", "t", state_epoch, state_batch))
    /\ trial_error' = "RuntimeError"
    /\ trial_pc' = "failed"
    /\ UNCHANGED <<pass_state, replace_targets, epochs, traingenSize,
                   valgenSize, state_epoch, state_batch, batch_n, y_true,
                   trial_steps, once_epoch, state_mu, state_loss, train_steps,
                   net_state, forward_stores, f_implemented>>
    /\ UNCHANGED cell_vars

\* closure: state[LOSS].backward(); closure returns the loss to step.
\* The loss is a tensor when the model computes one
FitBackward ==
    /\ trial_pc = "fit_backward"
    /\ f_implemented
    /\ tlog' = Append(tlog, TCall("backward", "t", state_epoch, state_batch))
    /\ trial_pc' = "fit_update"
    /\ UNCHANGED <<trial_error, pass_state, replace_targets, epochs,
                   traingenSize, valgenSize, state_epoch, state_batch, batch_n,
                   y_true, trial_steps, once_epoch, state_mu, state_loss,
                   train_steps, net_state, forward_stores, f_implemented>>
    /\ UNCHANGED cell_vars

\* Adam.step after the closure: the parameters are updated; then the
\* metrics and on_step_training, where this Trial has no callback
FitUpdate ==
    /\ trial_pc = "fit_update"
    /\ trial_steps' = trial_steps + 1
    /\ tlog' = Append(tlog, TCall("step", "t", state_epoch, state_batch))
    /\ state_batch' = state_batch + 1
    /\ trial_pc' = "fit_sample"
    /\ UNCHANGED <<trial_error, pass_state, replace_targets, epochs,
                   traingenSize, valgenSize, state_epoch, batch_n, y_true,
                   once_epoch, state_mu, state_loss, train_steps, net_state,
                   forward_stores, f_implemented>>
    /\ UNCHANGED cell_vars

FitPass ==
    \/ FitSample \/ FitPassOver \/ FitForward \/ FitForwardError \/ FitLoss
    \/ FitLossError \/ FitBackward \/ FitUpdate

\* ------------------------------------------------- the validation pass

\* the next batch of valgen is loaded; on_sample_validation runs
\* replace_targets
ValSample ==
    /\ trial_pc = "val_sample"
    /\ state_batch < NumBatches(valgenSize)
    /\ batch_n' = BatchLen(valgenSize, state_batch)
    /\ y_true' = OnSample(replace_targets)
    /\ tlog' = Append(tlog, TCall("sample", "v", state_epoch, state_batch))
    /\ trial_pc' = "val_forward"
    /\ UNCHANGED <<trial_error, pass_state, replace_targets, epochs,
                   traingenSize, valgenSize, state_epoch, state_batch,
                   trial_steps, once_epoch, state_mu, state_loss, train_steps,
                   net_state, forward_stores, f_implemented>>
    /\ UNCHANGED cell_vars

\* valgen is exhausted: the epoch ends (on_end_epoch), back to run
ValPassOver ==
    /\ trial_pc = "val_sample"
    /\ ~(state_batch < NumBatches(valgenSize))
    /\ trial_pc' = "run"
    /\ UNCHANGED <<trial_error, pass_state, replace_targets, epochs,
                   traingenSize, valgenSize, state_epoch, state_batch, batch_n,
                   y_true, trial_steps, once_epoch, tlog, state_mu, state_loss,
                   train_steps, net_state, forward_stores, f_implemented>>
    /\ UNCHANGED cell_vars

\* the forward pass of a validation step
ValForward ==
    /\ trial_pc = "val_forward"
    /\ ~ForwardRaises(pass_state)
    /\ state_mu' = StoredByForward(forward_stores, state_mu,
                                   <<"v", state_epoch, state_batch>>)
    /\ tlog' = Append(tlog, TCall(ForwardCall(pass_state), "v", state_epoch,
                                   state_batch))
    /\ trial_pc' = "val_loss"
    /\ UNCHANGED <<trial_error, pass_state, replace_targets, epochs,
                   traingenSize, valgenSize, state_epoch, state_batch, batch_n,
                   y_true, trial_steps, once_epoch, state_loss, train_steps,
                   net_state, forward_stores, f_implemented>>
    /\ UNCHANGED cell_vars

\* the forward pass of a validation step raises TypeError
ValForwardError ==
    /\ trial_pc = "val_forward"
    /\ ForwardRaises(pass_state)
    /\ tlog' = Append(tlog, TCall(ForwardCall(pass_state), "v", state_epoch,
                                   state_batch))
    /\ trial_error' = "TypeError"
    /\ trial_pc' = "failed"
    /\ UNCHANGED <<pass_state, replace_targets, epochs, traingenSize,
                   valgenSize, state_epoch, state_batch, batch_n, y_true,
                   trial_steps, once_epoch, state_mu, state_loss, train_steps,
                   net_state, forward_stores, f_implemented>>
    /\ UNCHANGED cell_vars

\* the criterion of a validation step (val_loss)
ValLoss ==
    /\ trial_pc = "val_loss"
    /\ ~BceRaises(batch_n, y_true)
    /\ state_loss' = TrialCriterion
    /\ tlog' = Append(tlog, TCall("loss", "v", state_epoch, state_batch))
    /\ trial_pc' = "on_step_validation"
    /\ UNCHANGED <<trial_error, pass_state, replace_targets, epochs,
                   traingenSize, valgenSize, state_epoch, state_batch, batch_n,
                   y_true, trial_steps, once_epoch, state_mu, train_steps,
                   net_state, forward_stores, f_implemented>>
    /\ UNCHANGED cell_vars

\* the criterion of a validation step raises RuntimeError
ValLossError ==
    /\ trial_pc = "val_loss"
    /\ BceRaises(batch_n, y_true)
    /\ tlog' = Append(tlog, TCall("loss", "v", state_epoch, state_batch))
    /\ trial_error' = "RuntimeError"
    /\ trial_pc' = "failed"
    /\ UNCHANGED <<pass_state, replace_targets, epochs, traingenSize,
                   valgenSize, state_epoch, state_batch, batch_n, y_true,
                   trial_steps, once_epoch, state_mu, state_loss, train_steps,
                   net_state, forward_stores, f_implemented>>
    /\ UNCHANGED cell_vars

\* on_step_validation: the callbacks bound to the end of a validation step
\* run; visualiser is the only one, behind its once_per_epoch guard
OnStepValidation ==
    /\ trial_pc = "on_step_validation"
    /\ IF OncePerEpoch(once_epoch, state_epoch)
       THEN /\ once_epoch' = state_epoch
            /\ tlog' = Append(tlog, TCall("visualiser", "v", state_epoch,
                                           state_batch))
       ELSE UNCHANGED <<once_epoch, tlog>>
    /\ state_batch' = state_batch + 1
    /\ trial_pc' = "val_sample"
    /\ UNCHANGED <<trial_error, pass_state, replace_targets, epochs,
                   traingenSize, valgenSize, state_epoch, batch_n, y_true,
                   trial_steps, state_mu, state_loss, train_steps, net_state,
                   forward_stores, f_implemented>>
    /\ UNCHANGED cell_vars

ValidationPass ==
    \/ ValSample \/ ValPassOver \/ ValForward \/ ValForwardError \/ ValLoss
    \/ ValLossError \/ OnStepValidation

TrialNext == StartEpoch \/ RunReturns \/ FitPass \/ ValidationPass

TrialSpec == TrialInit /\ [][TrialNext]_vars

\* run() goes on until it returns or raises
TrialFairSpec == TrialSpec /\ WF_vars(TrialNext)

\* --------------------------------- the Trial of the optimisation notebook
\*
\* tb.Trial(model, optim, loss, ...).for_train_steps(training_steps) followed
\* by run(): a Trial without a generator.  Its progress line is
\* "0/1(t): 10000/10000": one epoch, training_steps steps of the training
\* pass, no validation pass.  The cell comes in two copies: Net.forward
\* takes the state (forward(self, _, state)) and the Trial has
\* pass_state=True, or it takes none (forward(self, _)) and the Trial has no
\* pass_state.  In both the call fits the signature.  The loss is the value
\* of the function (loss(y_pred, y_true) returns y_pred) and cannot raise.
\* In the first copy Net.f() computes the function; in the second it is
\* left to the reader ("TODO: Implement this", pass) and returns None, so
\* that y_pred and the loss are None and the first backward raises.

\* model(x) or model(x, state=state) does not fit the signature of forward
SignatureRaises(ps, ns) == ps # ns

\* a training pass that takes one step more than asked for
TrainStepsLeftInclusive(done, steps) == done <= steps

\* the training pass goes on while fewer than `steps` steps are done
TrainStepsLeft(done, steps) == done < steps

\* the Trial as built by the training cell of the optimisation notebook, in
\* either copy: pass_state is set exactly when forward takes the state, and
\* that is the copy whose f() is implemented; run() is called without
\* arguments and runs one epoch.  Net.forward writes nothing to state
StepsInit ==
    /\ NoManualLoop
    /\ trial_pc = "run"
    /\ trial_error = "none"
    /\ pass_state \in BOOLEAN
    /\ replace_targets = "pass"
    /\ epochs = 1
    /\ traingenSize = 0
    /\ valgenSize = 0
    /\ train_steps \in 1 .. MaxTrainingSteps
    /\ net_state = pass_state
    /\ f_implemented = pass_state
    /\ forward_stores = FALSE
    /\ state_epoch = Unbound
    /\ state_batch = Unbound
    /\ batch_n = 0
    /\ y_true = "none"
    /\ trial_steps = 0
    /\ once_epoch = Unbound
    /\ tlog = <<>>
    /\ state_loss = {}
    /\ state_mu = <<>>

\* a step of the training pass begins: there is no batch to load
StepsSample ==
    /\ trial_pc = "fit_sample"
    /\ TrainStepsLeft(state_batch, train_steps)
    /\ tlog' = Append(tlog, TCall("sample", "t", state_epoch, state_batch))
    /\ trial_pc' = "fit_forward"
    /\ UNCHANGED <<trial_error, pass_state, replace_targets, epochs,
                   traingenSize, valgenSize, state_epoch, state_batch, batch_n,
                   y_true, trial_steps, once_epoch, state_mu, state_loss,
                   train_steps,
                   net_state, forward_stores,
                   f_implemented>>
    /\ UNCHANGED cell_vars

\* training_steps steps are done: the pass is over, and with no validation
\* generator the epoch is over too
StepsPassOver ==
    /\ trial_pc = "fit_sample"
    /\ ~TrainStepsLeft(state_batch, train_steps)
    /\ trial_pc' = "run"
    /\ UNCHANGED <<trial_error, pass_state, replace_targets, epochs,
                   traingenSize, valgenSize, state_epoch, state_batch, batch_n,
                   y_true, trial_steps, once_epoch, tlog, state_mu, state_loss,
                   train_steps,
                   net_state, forward_stores,
                   f_implemented>>
    /\ UNCHANGED cell_vars

\* closure: Net.forward returns f() of the parameters
StepsForward ==
    /\ trial_pc = "fit_forward"
    /\ ~SignatureRaises(pass_state, net_state)
    /\ tlog' = Append(tlog, TCall(ForwardCall(pass_state), "t", state_epoch,
                                   state_batch))
    /\ trial_pc' = "fit_loss"
    /\ UNCHANGED <<trial_error, pass_state, replace_targets, epochs,
                   traingenSize, valgenSize, state_epoch, state_batch, batch_n,
                   y_true, trial_steps, once_epoch, state_mu, state_loss,
                   train_steps,
                   net_state, forward_stores,
                   f_implemented>>
    /\ UNCHANGED cell_vars

\* closure: loss(y_pred, y_true) returns y_pred, a tensor or None
StepsLoss ==
    /\ trial_pc = "fit_loss"
    /\ state_loss' = {"y_pred"}
    /\ tlog' = Append(tlog, TCall("loss", "t", state_epoch, state_batch))
    /\ trial_pc' = "fit_backward"
    /\ UNCHANGED <<trial_error, pass_state, replace_targets, epochs,
                   traingenSize, valgenSize, state_epoch, state_batch, batch_n,
                   y_true, trial_steps, once_epoch, state_mu, train_steps,
                   net_state, forward_stores,
                   f_implemented>>
    /\ UNCHANGED cell_vars

\* closure: state[LOSS] is None, what the empty f() returned:
\* state[LOSS].backward() raises AttributeError, which leaves closure, step
\* and run before the optimizer has updated anything
StepsBackwardError ==
    /\ trial_pc = "fit_backward"
    /\ ~f_implemented
    /\ tlog' = Append(tlog, TCall("backward", "t", state_epoch, state_batch))
    /\ trial_error' = "AttributeError"
    /\ trial_pc' = "failed"
    /\ UNCHANGED <<pass_state, replace_targets, epochs, traingenSize,
                   valgenSize, state_epoch, state_batch, batch_n, y_true,
                   trial_steps, once_epoch, state_mu, state_loss, train_steps,
                   net_state, forward_stores, f_implemented>>
    /\ UNCHANGED cell_vars

StepsPass ==
    \/ StepsSample \/ StepsPassOver \/ StepsForward \/ StepsLoss
    \/ FitBackward \/ StepsBackwardError \/ FitUpdate

StepsNext == StartEpoch \/ RunReturns \/ StepsPass

StepsSpec == StepsInit /\ [][StepsNext]_vars

\* run() goes on until it returns
StepsFairSpec == StepsSpec /\ WF_vars(StepsNext)

\* ------------------------------------------------- claims on the Trial

\* the calls of the log with operation op
TCallsOf(op) == SelectSeq(tlog, LAMBDA r : r.op = op)

\* C14: the visualiser callback runs only after a validation step and at
\* most once per epoch.  Every call of it comes directly after the loss of a
\* validation step of the same epoch (so never after a training step); no
\* two calls of it belong to one epoch; and in every epoch that has a
\* validation pass it is what follows the first validation step (a step
\* whose loss raised is no step: run() has ended there).
C14_VisualiserOncePerEpoch ==
    /\ \A k \in 1 .. Len(tlog) :
          tlog[k].op = "visualiser" =>
              /\ k > 1
              /\ tlog[k - 1] = TCall("loss", "v", tlog[k].epoch, tlog[k].batch)
    /\ LET vis == TCallsOf("visualiser")
       IN  \A j, k \in 1 .. Len(vis) : j # k => vis[j].epoch # vis[k].epoch
    /\ \A k \in 1 .. Len(tlog) :
          (tlog[k].op = "loss" /\ tlog[k].phase = "v" /\ tlog[k].batch = 0)
              => IF k = Len(tlog)
                 THEN \/ trial_pc = "on_step_validation"
                      \/ trial_error = "RuntimeError"
                 ELSE tlog[k + 1] = TCall("visualiser", "v", tlog[k].epoch, 0)

\* C14 witness: run() has returned after two epochs whose validation passes
\* had two steps each; visualiser has run twice
C14_Witness ==
    /\ trial_pc = "returned"
    /\ epochs = 2
    /\ NumBatches(valgenSize) = 2
    /\ NumBatches(traingenSize) = 2
    /\ Len(TCallsOf("visualiser")) = 2

\* the calls of the first training batch up to its loss
FirstBatchToLoss(fwd) ==
    <<TCall("sample", "t", 0, 0), TCall(fwd, "t", 0, 0),
      TCall("loss", "t", 0, 0)>>

\* C15 as stated: with the shipped no-op replace_targets, run() over a
\* train generator that is not empty fails with the error about target
\* sizes raised by the loss on the first training batch, before any
\* parameter update has been applied.
C15_FailsInLoss ==
    (replace_targets = "pass" /\ traingenSize >= 1 /\ trial_error # "none")
        => /\ trial_error = "RuntimeError"
           /\ tlog = FirstBatchToLoss(ForwardCall(pass_state))
           /\ trial_steps = 0

\* the case of C15: the no-op replace_targets, a forward that is given
\* state, at least one epoch and one training batch
C15_Case ==
    /\ replace_targets = "pass"
    /\ pass_state
    /\ epochs >= 1
    /\ traingenSize >= 1

\* in that case run() never gets past the loss of the first training batch
C15_BeforeAnyUpdate ==
    C15_Case =>
        /\ trial_steps = 0
        /\ trial_pc # "returned"
        /\ trial_error \in {"none", "RuntimeError"}
        /\ IsPrefix(tlog, FirstBatchToLoss("forward_state"))
        /\ trial_error = "RuntimeError"
              => tlog = FirstBatchToLoss("forward_state")

\* C15 amended: with the shipped no-op replace_targets and a Trial that
\* passes state to forward (pass_state=True), run() fails with the error
\* about target sizes, raised by the loss on the first training batch,
\* before any parameter update has been applied.  (Built without pass_state,
\* as in the training cell of VAE.ipynb, the run ends before that, in the
\* forward pass.)
C15_TargetSizeError ==
    /\ []C15_BeforeAnyUpdate
    /\ C15_Case => <>(trial_error = "RuntimeError")

\* C15 witness: the loss of the first training batch, a full batch of
\* labels, has raised
C15_Witness ==
    /\ C15_Case
    /\ trial_error = "RuntimeError"
    /\ batch_n = BATCH_SIZE
    /\ y_true = "labels"
    /\ epochs = 2
    /\ tlog = FirstBatchToLoss("forward_state")

\* the case of C16: a Trial built without pass_state, at least one epoch
\* and one training batch
C16_Case ==
    /\ ~pass_state
    /\ epochs >= 1
    /\ traingenSize >= 1

\* built without pass_state run() never gets past the forward pass of the
\* first training batch, and no optimizer step is applied
C16_NoStepWithoutState ==
    C16_Case =>
        /\ trial_steps = 0
        /\ trial_pc # "returned"
        /\ trial_error \in {"none", "TypeError"}
        /\ IsPrefix(tlog, <<TCall("sample", "t", 0, 0),
                            TCall("forward", "t", 0, 0)>>)
        /\ trial_error = "TypeError" => Len(tlog) = 2

\* with pass_state=True every forward call, of a training or of a
\* validation step, is given state, and none raises TypeError
C16_StatePassed ==
    pass_state =>
        /\ trial_error # "TypeError"
        /\ TCallsOf("forward") = <<>>
        /\ Len(TCallsOf("forward_state")) = Len(TCallsOf("sample"))
              - (IF trial_pc \in {"fit_forward", "val_forward"} THEN 1 ELSE 0)

\* C16: VAE.forward takes state as its second argument, so a Trial built
\* without pass_state fails on the first training batch with the TypeError
\* of the missing argument and no optimizer step is applied; with
\* pass_state=True state is passed to forward on every batch.
C16_ForwardNeedsState ==
    /\ []C16_NoStepWithoutState
    /\ []C16_StatePassed
    /\ C16_Case => <>(trial_error = "TypeError")

\* C16 witness: built without pass_state (replace_targets implemented or
\* not), the forward of the first training batch has raised
C16_Witness ==
    /\ C16_Case
    /\ trial_error = "TypeError"
    /\ batch_n = BATCH_SIZE
    /\ epochs = 2
    /\ tlog = <<TCall("sample", "t", 0, 0), TCall("forward", "t", 0, 0)>>

\* ------------------------------------------ further claims on the cell

\* C18: after the first batch of any epoch running_loss equals 0.01 times
\* that batch's loss.  The value is a function of that loss alone: whatever
\* the losses of the epoch before, and so whatever running_loss was when it
\* ended, two runs that agree on this loss agree on running_loss here.
C18_FirstBatchAlone ==
    (pc = "for_batch" /\ enum = 1 /\ epoch >= 0)
        => 100 * running_loss = loss * Scale

\* C18 witness: the first batch of the second epoch, of loss 1, is done and
\* running_loss is 0.01; the epoch before had three batches
C18_Witness ==
    /\ pc = "for_batch"
    /\ epoch = 1
    /\ enum = 1
    /\ loss = 1
    /\ 100 * running_loss = Scale
    /\ Len(params) = 4

\* samples of the first k batches of testgen
SamplesThrough(k) ==
    IF k * BATCH_SIZE <= testSize THEN k * BATCH_SIZE ELSE testSize

\* the evaluation counters between the statements of the evaluation loop
C19_Counted ==
    /\ pc = "iter_test" => (correct = 0 /\ total = 0)
    /\ (pc = "for_test" /\ testiter = 0) => (correct = 0 /\ total = 0)
    /\ pc \in {"for_test", "eval_correct"} => total = SamplesThrough(testiter)
    /\ pc \in {"eval_forward", "eval_max", "eval_total"}
          => total = SamplesThrough(testiter - 1)
    /\ pc \in {"for_test", "eval_forward", "eval_max", "eval_total",
               "eval_correct", "report", "done"}
          => (0 <= correct /\ correct <= total)
    /\ EvalLoopOver => total = testSize

\* what the two counting statements add for one batch
C19_BatchAdds ==
    /\ pc = "eval_total" => total' = total + data.n
    /\ pc = "eval_correct" =>
          correct' = correct + Cardinality({k \in 1 .. data.n :
                                               predicted[k] = labels[k]})
    /\ pc \in {"for_test", "eval_forward", "eval_max", "report"}
          => UNCHANGED <<correct, total>>

\* C19: correct and total are both 0 when evaluation starts; each test
\* batch adds exactly its number of samples to total and the number of its
\* rows whose arg-max class equals the label to correct; when evaluation is
\* over total is the number of samples of the held-out set, a smaller final
\* batch included.
C19_EvalCounters == []C19_Counted /\ [][C19_BatchAdds]_vars

\* C19 witness: evaluation of three samples, in a batch of two and a final
\* batch of one, is over; some rows were right and some wrong
C19_Witness ==
    /\ pc = "report"
    /\ testSize = BATCH_SIZE + 1
    /\ total = testSize
    /\ 0 < correct
    /\ correct < total

\* the calls of the log with operation op, phase ph and epoch e
TCallsIn(op, ph, e) ==
    SelectSeq(tlog, LAMBDA r : r.op = op /\ r.phase = ph /\ r.epoch = e)

\* the positions of Trial.run inside a validation pass
ValidationPcs == {"val_sample", "val_forward", "val_loss", "on_step_validation"}

\* the order and the completeness of the passes, read off the call log
C21_PassesInOrder ==
    /\ \A k \in 1 .. (Len(tlog) - 1) :
          \/ tlog[k].epoch < tlog[k + 1].epoch
          \/ /\ tlog[k].epoch = tlog[k + 1].epoch
             /\ tlog[k].phase = "v" => tlog[k + 1].phase = "v"
             /\ tlog[k].phase = tlog[k + 1].phase
                   => tlog[k].batch <= tlog[k + 1].batch
    /\ \A e \in 0 .. (MaxTrialEpochs - 1) :
          /\ (e < state_epoch \/ (e = state_epoch /\ trial_pc \in ValidationPcs)
                \/ (e = state_epoch /\ trial_pc \in {"run", "returned"}))
                => Len(TCallsIn("step", "t", e)) = NumBatches(traingenSize)
          /\ (e < state_epoch
                \/ (e = state_epoch /\ trial_pc \in {"run", "returned"}))
                => Len(TCallsIn("loss", "v", e)) = NumBatches(valgenSize)
    /\ \A k \in 1 .. Len(tlog) : tlog[k].op = "step" => tlog[k].phase = "t"
    /\ trial_steps = Len(TCallsOf("step"))
    /\ trial_pc = "returned" => state_epoch + 1 = epochs \/ epochs = 0

\* a step of a validation pass applies no optimizer step
C21_ValidationStep ==
    trial_pc \in ValidationPcs => trial_steps' = trial_steps

\* C21: in Trial.run with a train and a validation generator each epoch is
\* a full training pass over all training batches followed by a full
\* validation pass over all validation batches; the validation pass of
\* epoch k is complete before the training pass of epoch k + 1 starts, and
\* no optimizer step is applied during a validation pass.
C21_TrainThenValidate == []C21_PassesInOrder /\ [][C21_ValidationStep]_vars

\* C21 witness: run(2) has returned after two epochs of two training and
\* two validation batches each
C21_Witness ==
    /\ trial_pc = "returned"
    /\ epochs = 2
    /\ NumBatches(traingenSize) = 2
    /\ NumBatches(valgenSize) = 2
    /\ trial_steps = 4
    /\ Len(TCallsOf("loss")) = 8

\* ---------------------------------------------------------------------------
\* C22: what state[MU] and state[LOGVAR] hold
\* ---------------------------------------------------------------------------

\* the batch of the most recent forward pass that ran its body, <<>> if none
LastForward ==
    LET f == TCallsOf("forward_state")
    IN  IF f = <<>> THEN <<>>
        ELSE <<f[Len(f)].phase, f[Len(f)].epoch, f[Len(f)].batch>>

\* C22: every forward pass of the VAE of VAE.ipynb stores the mean and
\* log-variance of the batch it works on in state[MU] and state[LOGVAR]: after
\* any forward pass the two hold the values of the most recent batch, never
\* those of an earlier one, and between a forward pass and the end of its
\* step they are those of the current batch, in the training pass and in the
\* validation pass alike.  The forward of the variant that stores nothing
\* leaves state without the two keys for the whole run.
C22_StateHoldsCurrentBatch ==
    IF forward_stores
    THEN /\ state_mu = LastForward
         /\ trial_pc \in {"fit_loss", "fit_backward", "fit_update"}
                => state_mu = <<"t", state_epoch, state_batch>>
         /\ trial_pc \in {"val_loss", "on_step_validation"}
                => state_mu = <<"v", state_epoch, state_batch>>
    ELSE state_mu = <<>>

C22_Witness ==
    /\ forward_stores
    /\ trial_pc = "on_step_validation"
    /\ state_epoch = 1
    /\ state_batch = 1
    /\ state_mu = <<"v", 1, 1>>
    /\ Len(TCallsOf("forward_state")) = 8

\* ---------------------------------------------------------------------------
\* C23: the loss that is minimised
\* ---------------------------------------------------------------------------

\* C23: the loss minimised when training the VAE is the sum of the binary
\* cross entropy reconstruction loss on (y_pred, y_true) and the KLD loss on
\* the batch's mean and log-variance: whenever the criterion of a training
\* step has returned, state[LOSS] is that sum.
C23_LossIsBcePlusKld ==
    trial_pc \in {"fit_backward", "fit_update"} => state_loss = VaeLoss

\* what the cell as shipped minimises: the reconstruction term alone
C23_Reached ==
    /\ trial_pc = "fit_update"
    /\ pass_state
    /\ replace_targets = "images"
    /\ forward_stores
    /\ state_mu = <<"t", 0, 0>>
    /\ state_loss = {"bce_loss"}

\* ---------------------------------------------------------------------------
\* C24: a Trial for a number of training steps
\* ---------------------------------------------------------------------------

\* the steps of the run are counted: one update per "step" call, never more
\* than for_train_steps asked, all within epoch 0 and its training pass
StepsWithinBudget ==
    /\ trial_steps = Len(TCallsOf("step"))
    /\ trial_steps <= train_steps
    /\ state_epoch \in {Unbound, 0}
    /\ \A k \in 1 .. Len(tlog) : tlog[k].phase = "t" /\ tlog[k].epoch = 0

\* run() raises nothing, and has made exactly training_steps steps when it
\* has returned
RunsAllSteps ==
    /\ trial_error = "none"
    /\ trial_pc # "failed"
    /\ trial_pc = "returned"
           => /\ trial_steps = train_steps
              /\ Len(TCallsIn("step", "t", 0)) = train_steps
              /\ state_epoch = 0

\* run() never returns and the optimizer never steps: the only way out is
\* the AttributeError of the first backward
FailsInFirstBackward ==
    /\ trial_steps = 0
    /\ trial_pc # "returned"
    /\ trial_error \in {"none", "AttributeError"}
    /\ trial_error = "AttributeError" <=> trial_pc = "failed"
    /\ trial_pc = "failed"
           => /\ state_epoch = 0
              /\ state_batch = 0
              /\ Len(TCallsOf("backward")) = 1
              /\ tlog[Len(tlog)].op = "backward"

\* run() has returned
C24_Stopped == trial_pc = "returned"

C24_StepsCounted == StepsWithinBudget /\ RunsAllSteps

C24_StepsOrFailure ==
    /\ StepsWithinBudget
    /\ IF f_implemented THEN RunsAllSteps ELSE FailsInFirstBackward

C24_Ended == trial_pc = (IF f_implemented THEN "returned" ELSE "failed")

EvalNeverStarted ==
    /\ ~EvalBegun
    /\ pc \notin EvalPcs
    /\ correct = Unbound
    /\ total = Unbound
    /\ accuracy = Unbound
    /\ \A k \in 1 .. Len(log) : log[k].phase = "train"

\* the updates of every completed batch are in the parameters: one per batch
\* of the epochs before the failing one and one per batch before it in its own
UpdatesKept ==
    /\ Len(params) = epoch * NumBatches(trainSize) + i
    /\ Len(params) = Len(CallsOf("step", "train"))
    /\ adam_steps = Len(params)

\* what an abort leaves of the work done: the updates of the completed
\* batches, the running loss as it was after the last of them, no evaluation
C25_KeepsLastCompleted ==
    error = "shape_mismatch"
        => /\ UpdatesKept
           /\ last_running # Unbound => running_loss = last_running
           /\ EvalNeverStarted

\* the state an abort leaves: with no completed batch the running loss is
\* the 0.0 of the head of the epoch
C25_AbortState ==
    error = "shape_mismatch"
        => /\ pc = "error"
           /\ running_loss = (IF i = 0 THEN 0 ELSE last_running)
           /\ last_running = Unbound <=> i = 0
           /\ Len(epoch_losses) = i

\* the failing step itself changes neither parameters nor running loss, and
\* nothing runs after it
C25_AbortStep ==
    /\ error' = "shape_mismatch" /\ error = "none"
           => /\ params' = params
              /\ adam_steps' = adam_steps
              /\ running_loss' = running_loss
    /\ error # "shape_mismatch"

\* C25: when training aborts with an error on some batch, there is no
\* rollback: the parameter updates of all batches completed before the
\* failing one remain applied, the running loss keeps the value it had after
\* the last completed batch, and the evaluation loop that follows training
\* is never started.
C25_NoRollback ==
    []C25_KeepsLastCompleted /\ []C25_AbortState /\ [][C25_AbortStep]_vars

\* an abort on the third batch, the short one, after two completed batches
C25_Witness ==
    /\ error = "shape_mismatch"
    /\ i = 2
    /\ data.n < BATCH_SIZE
    /\ Len(params) = 2
    /\ last_running > 0
    /\ running_loss = last_running

\* ---------------------------------------------------------------------------
\* C26: the running loss as a weighted sum
\* ---------------------------------------------------------------------------

\* the largest of the losses ls, 0 when there is none
RECURSIVE MaxLossOf(_)
MaxLossOf(ls) ==
    IF ls = <<>> THEN 0
    ELSE LET m == MaxLossOf(Tail(ls))
         IN  IF Head(ls) > m THEN Head(ls) ELSE m

\* the sum over the batches k .. n of ls, n its length, of
\* 0.01 * 0.99^(n - k) * ls[k], in the fixed point of running_loss:
\* 0.01 * 0.99^(n - k) * Scale is 99^(n - k) * Scale / 100^(n - k + 1)
RECURSIVE WeightedFrom(_, _)
WeightedFrom(ls, k) ==
    IF k > Len(ls) THEN 0
    ELSE ls[k] * Pow(99, Len(ls) - k) * (Scale \div Pow(100, Len(ls) - k + 1))
         + WeightedFrom(ls, k + 1)

\* the losses the cell can see are not negative
LossesNonNegative == \A k \in 1 .. Len(epoch_losses) : epoch_losses[k] >= 0

\* C26: if all batch losses of an epoch are non-negative, then after every
\* batch of that epoch 0 <= running_loss <= the largest batch loss seen so far
\* in that epoch, and after n batches running_loss is the sum over the batches
\* i = 0 .. n-1 of 0.01 * 0.99^(n-1-i) * loss_i.
C26_WeightedSum ==
    (running_loss # Unbound /\ LossesNonNegative)
        => /\ 0 <= running_loss
           /\ running_loss <= MaxLossOf(epoch_losses) * Scale
           /\ running_loss = WeightedFrom(epoch_losses, 1)
           /\ pc \in BatchBodyPcs => Len(epoch_losses) = i
           /\ pc = "for_batch" => Len(epoch_losses) = enum

\* C26 witness: three batches of losses 2, 0 and 1 are done:
\* running_loss is 0.01 * (0.99^2 * 2 + 0.99 * 0 + 1)
C26_Witness ==
    /\ pc = "for_batch"
    /\ epoch_losses = <<2, 0, 1>>
    /\ running_loss
           = (99 * 99 * 2 + 100 * 100 * 1) * (Scale \div (100 * 100 * 100))

\* ---------------------------------------------------------------------------
\* C27: an empty held-out loader
\* ---------------------------------------------------------------------------

\* with no test batch the counters stay 0 through the evaluation loop and no
\* accuracy is ever produced; the division fails only then
C27_EmptyTestState ==
    /\ (testSize = 0 /\ (pc \in EvalPcs \ {"eval_init"} \/ EvalLoopOver))
           => /\ total = 0
              /\ correct = 0
              /\ CallsOf("forward", "eval") = <<>>
    /\ testSize = 0 => (pc # "done" /\ accuracy = Unbound)
    /\ error = "zero_division"
           => /\ testSize = 0
              /\ total = 0
              /\ pc = "error"
              /\ accuracy = Unbound

\* the accuracy computation after an evaluation loop of no batch raises
C27_ReportFails ==
    (pc = "report" /\ testSize = 0)
        => /\ error' = "zero_division"
           /\ pc' = "error"
           /\ accuracy' = accuracy

\* C27: if the held-out loader yields no batch, total stays 0 after the
\* evaluation loop and the final accuracy computation divides by zero and
\* fails, instead of producing an accuracy in [0,1].
C27_ZeroDivision == []C27_EmptyTestState /\ [][C27_ReportFails]_vars

\* C27 witness: training of two epochs is done, the test loader was empty and
\* the cell ended in the division
C27_Witness ==
    /\ error = "zero_division"
    /\ testSize = 0
    /\ total = 0
    /\ nEpoch = 2
    /\ Len(params) = 6
    /\ Len(CallsOf("iter", "eval")) = 1

====
